---- MODULE Spec2Model ----
(***************************************************************************)
(* A model of src/src/App.jsx: the cellular-automaton core (rule tables,   *)
(* derivative, evolution, groovy commutator, the "aware" automaton, the    *)
(* 2D Life-like step and the density metric) and the loop of run1D.        *)
(*                                                                         *)
(* JavaScript arrays are 0-indexed; the sequences below are 1-indexed, so  *)
(* element i of the source is element i + 1 here.  A Uint8Array of cells   *)
(* is a sequence over {0, 1}.                                              *)
(***************************************************************************)
EXTENDS Integers, Sequences, FiniteSets, TLC

\* ------------------------------------------------------------------ bounds
MaxWidth == 3
MaxSteps == 3
SeedWidth == 7
MaxGrid == 6
MaxGenerations == 2
MaxLen == 6
MaxRows == 2
MaxTables == 511

\* ------------------------------------------------------- values and helpers
Bit == {0, 1}

\* The rule numbers of the rule input (min 0, max 255).
Rules == 0..255

\* The memory behaviours the select offers.
Behaviors == {"ignore", "stabilize", "invert", "excite"}

\* `let prevDeriv = null`: a nullable array is the empty tuple (null) or the
\* one-element tuple holding the array.
null == <<>>

Some(a) == <<a>>

\* The array whose element k is f[k], every element computed once, when the
\* array is built (as `new Uint8Array(n)` filled by a loop, or the result of map).
array(f) == f \o <<>>

\* The object whose property `key` is f[key], every property computed once, when
\* the object is built (as `const dict = {}` filled by the loops).
object(f) == f @@ <<>>

\* a ^ b on cells
Xor(a, b) == (a + b) % 2

\* Number.prototype.toString(2) of a non-negative integer: its binary digits,
\* most significant first, as characters.
RECURSIVE toString2(_)
toString2(n) ==
  IF n < 2 THEN <<IF n = 0 THEN "0" ELSE "1">>
  ELSE Append(toString2(n \div 2), IF n % 2 = 0 THEN "0" ELSE "1")

\* String.prototype.padStart(len, ch)
padStart(s, len, ch) ==
  IF Len(s) >= len THEN s
  ELSE array([k \in 1..len |-> IF k <= len - Len(s) THEN ch ELSE s[k - (len - Len(s))]])

\* split('').reverse()
reverse(s) == array([k \in 1..Len(s) |-> s[Len(s) + 1 - k]])

\* parseInt of one binary digit character
parseInt(ch) == CASE ch = "0" -> 0 [] ch = "1" -> 1

\* arr.reduce((a, b) => a + b, 0)
RECURSIVE reduceSum(_)
reduceSum(arr) ==
  IF Len(arr) = 0 THEN 0 ELSE arr[1] + reduceSum(Tail(arr))

\* The JavaScript quotient a / b of two non-negative integers, kept exact: a
\* fraction <<a, b>>, and the two non-numbers a zero divisor gives.
jsDivide(a, b) ==
  IF b = 0 THEN (IF a = 0 THEN <<"NaN">> ELSE <<"Infinity">>)
  ELSE <<a, b>>

\* ------------------------------------------------------ core CA framework
ruleToDict_msbFirst(ruleNumber) ==
  LET binary == padStart(toString2(ruleNumber), 8, "0")
  IN  object([key \in Bit \X Bit \X Bit |->
         parseInt(binary[(4 * key[1] + 2 * key[2] + key[3]) + 1])])

ruleToDict(ruleNumber) ==
  LET binary == reverse(padStart(toString2(ruleNumber), 8, "0"))
  IN  object([key \in Bit \X Bit \X Bit |->
         parseInt(binary[(4 * key[1] + 2 * key[2] + key[3]) + 1])])

\* The cells the loop of applyRule (and of applyAwareRule) reads for index i
\* (0-based): state[(i - 1 + n) % n], state[i], state[(i + 1) % n].
left(state, i) == state[((i - 1 + Len(state)) % Len(state)) + 1]

center(state, i) == state[i + 1]

right(state, i) == state[((i + 1) % Len(state)) + 1]

applyRule_noWrap(state, ruleDict) ==
  array([k \in 1..Len(state) |->
     ruleDict[<<IF k = 1 THEN 0 ELSE state[k - 1],
                state[k],
                IF k = Len(state) THEN 0 ELSE state[k + 1]>>]])

applyRule(state, ruleDict) ==
  array([k \in 1..Len(state) |->
     ruleDict[<<left(state, k - 1), center(state, k - 1), right(state, k - 1)>>]])

\* D(s) = change mask
derivative(state, ruleDict) ==
  LET next == applyRule(state, ruleDict)
  IN  array([k \in 1..Len(state) |-> Xor(state[k], next[k])])

evolve_or(state, ruleDict) ==
  LET D == derivative(state, ruleDict)
  IN  array([k \in 1..Len(state) |-> IF state[k] = 1 \/ D[k] = 1 THEN 1 ELSE 0])

\* E(s) = s xor D(s)
evolve(state, ruleDict) ==
  LET D == derivative(state, ruleDict)
  IN  array([k \in 1..Len(state) |-> Xor(state[k], D[k])])

\* G(s) = D(E(s)) xor E(D(s))
groovyCommutator(state, ruleDict) ==
  LET Ds   == derivative(state, ruleDict)
      Es   == evolve(state, ruleDict)
      D_Es == derivative(Es, ruleDict)
      E_Ds == evolve(Ds, ruleDict)
  IN  array([k \in 1..Len(D_Es) |-> Xor(D_Es[k], E_Ds[k])])

groovyCommutator2_once(state, ruleDict) ==
  LET G == groovyCommutator(state, ruleDict)
  IN  derivative(G, ruleDict)

\* G2(s) = G(G(s))
groovyCommutator2(state, ruleDict) ==
  LET G == groovyCommutator(state, ruleDict)
  IN  groovyCommutator(G, ruleDict)

density(arr) == jsDivide(reduceSum(arr), Len(arr))

\* ------------------------------------------------------------- aware CA
awareRuleToDict_swapRD(ruleNumber) ==
  LET binary == reverse(padStart(toString2(ruleNumber), 16, "0"))
  IN  object([key \in Bit \X Bit \X Bit \X Bit |->
         parseInt(binary[(8 * key[1] + 4 * key[2] + 2 * key[4] + key[3]) + 1])])

awareRuleToDict(ruleNumber) ==
  LET binary == reverse(padStart(toString2(ruleNumber), 16, "0"))
  IN  object([key \in Bit \X Bit \X Bit \X Bit |->
         parseInt(binary[(8 * key[1] + 4 * key[2] + 2 * key[3] + key[4]) + 1])])

\* prevDerivative ? prevDerivative[i] : 0
didChange(prevDerivative, i) ==
  IF prevDerivative = null THEN 0 ELSE prevDerivative[1][i + 1]

applyAwareRule(state, prevDerivative, ruleDict) ==
  array([k \in 1..Len(state) |->
     ruleDict[<<left(state, k - 1), center(state, k - 1), right(state, k - 1),
                didChange(prevDerivative, k - 1)>>]])

evolveAware(state, prevDeriv, ruleDict) ==
  LET next == applyAwareRule(state, prevDeriv, ruleDict)
  IN  [next  |-> next,
       deriv |-> array([k \in 1..Len(state) |-> Xor(state[k], next[k])])]

groovyCommutatorAware_fromDerivative(state, prevDeriv, ruleDict) ==
  LET first   == evolveAware(state, prevDeriv, ruleDict)
      Es      == first.next
      D_at_s  == first.deriv
      D_Es    == evolveAware(Es, Some(D_at_s), ruleDict).deriv
      E_Ds    == evolveAware(D_at_s, Some(D_at_s), ruleDict).next
  IN  array([k \in 1..Len(D_Es) |-> Xor(D_Es[k], E_Ds[k])])

groovyCommutatorAware(state, prevDeriv, ruleDict) ==
  LET first   == evolveAware(state, prevDeriv, ruleDict)
      Es      == first.next
      D_at_s  == first.deriv
      D_Es    == evolveAware(Es, Some(D_at_s), ruleDict).deriv
      Ds      == array([k \in 1..Len(state) |-> Xor(state[k], D_at_s[k])])
      afterDs == evolveAware(Ds, Some(D_at_s), ruleDict).deriv
      E_Ds    == array([k \in 1..Len(Ds) |-> Xor(Ds[k], afterDs[k])])
      D_E_Ds  == array([k \in 1..Len(E_Ds) |-> Xor(E_Ds[k], afterDs[k])])
  IN  array([k \in 1..Len(D_Es) |-> Xor(D_Es[k], D_E_Ds[k])])

\* rule16 |= (1n << BigInt(idx))
setBit(rule16, idx) ==
  IF (rule16 \div (2 ^ idx)) % 2 = 1 THEN rule16 ELSE rule16 + 2 ^ idx

awareResult_stabilizeToLeft(dict, memoryBehavior, l, c, r, d) ==
  LET baseResult == dict[<<l, c, r>>]
  IN  IF d = 1
      THEN CASE memoryBehavior = "invert"    -> 1 - baseResult
             [] memoryBehavior = "stabilize" -> l
             [] memoryBehavior = "excite"    -> 1
             [] OTHER                        -> baseResult
      ELSE baseResult

\* The entry the nested loops compute for (l, c, r, d).
awareResult(dict, memoryBehavior, l, c, r, d) ==
  LET baseResult == dict[<<l, c, r>>]
  IN  IF d = 1
      THEN CASE memoryBehavior = "invert"    -> 1 - baseResult
             [] memoryBehavior = "stabilize" -> c
             [] memoryBehavior = "excite"    -> 1
             [] OTHER                        -> baseResult
      ELSE baseResult

\* The four nested loops over l, c, r, d, in their order: pass `pass` (0..15)
\* is l = pass div 8, c = (pass div 4) mod 2, r = (pass div 2) mod 2,
\* d = pass mod 2.
RECURSIVE awareLoop(_, _, _, _)
awareLoop(dict, memoryBehavior, pass, rule16) ==
  IF pass = 16 THEN rule16
  ELSE LET l      == pass \div 8
           c      == (pass \div 4) % 2
           r      == (pass \div 2) % 2
           d      == pass % 2
           result == awareResult(dict, memoryBehavior, l, c, r, d)
           idx    == 8 * l + 4 * c + 2 * r + d
       IN  awareLoop(dict, memoryBehavior, pass + 1,
                     IF result # 0 THEN setBit(rule16, idx) ELSE rule16)

standardToAwareRule_noLift(rule8bit, memoryBehavior) == rule8bit

standardToAwareRule(rule8bit, memoryBehavior) ==
  awareLoop(ruleToDict(rule8bit), memoryBehavior, 0, 0)

\* --------------------------------------------------------------- 2D CA
\* Array.prototype.includes
includes(arr, v) == \E k \in 1..Len(arr) : arr[k] = v

\* The sum over dy, dx in -1..1, (dy, dx) # (0, 0), of grid[ny][nx], the
\* pairs taken in the loops' order (offset 0..8, the centre being offset 4).
RECURSIVE neighborSum(_, _, _, _)
neighborSum(grid, y, x, offset) ==
  IF offset = 9 THEN 0
  ELSE LET h  == Len(grid)
           w  == Len(grid[1])
           dy == (offset \div 3) - 1
           dx == (offset % 3) - 1
           ny == (y + dy + h) % h
           nx == (x + dx + w) % w
       IN  (IF dy = 0 /\ dx = 0 THEN 0 ELSE grid[ny + 1][nx + 1])
             + neighborSum(grid, y, x, offset + 1)

RECURSIVE neighborSum_noWrap(_, _, _, _)
neighborSum_noWrap(grid, y, x, offset) ==
  IF offset = 9 THEN 0
  ELSE LET h  == Len(grid)
           w  == Len(grid[1])
           ny == y + (offset \div 3) - 1
           nx == x + (offset % 3) - 1
       IN  (IF offset = 4 \/ ny < 0 \/ ny >= h \/ nx < 0 \/ nx >= w THEN 0
            ELSE grid[ny + 1][nx + 1])
             + neighborSum_noWrap(grid, y, x, offset + 1)

evolve2D_noWrap(grid, birthRule, surviveRule) ==
  array([ky \in 1..Len(grid) |->
     array([kx \in 1..Len(grid[1]) |->
        LET neighbors == neighborSum_noWrap(grid, ky - 1, kx - 1, 0)
        IN  IF grid[ky][kx] # 0
            THEN (IF includes(surviveRule, neighbors) THEN 1 ELSE 0)
            ELSE (IF includes(birthRule, neighbors) THEN 1 ELSE 0)])])

evolve2D(grid, birthRule, surviveRule) ==
  array([ky \in 1..Len(grid) |->
     array([kx \in 1..Len(grid[1]) |->
        LET neighbors == neighborSum(grid, ky - 1, kx - 1, 0)
        IN  IF grid[ky][kx] # 0
            THEN (IF includes(surviveRule, neighbors) THEN 1 ELSE 0)
            ELSE (IF includes(birthRule, neighbors) THEN 1 ELSE 0)])])

\* The (sum, count) the two loops of density2D accumulate, row by row.
RECURSIVE density2DLoop(_, _, _)
density2DLoop(grid, sum, count) ==
  IF Len(grid) = 0 THEN <<sum, count>>
  ELSE density2DLoop(Tail(grid), sum + reduceSum(grid[1]), count + Len(grid[1]))

density2D(grid) ==
  LET acc == density2DLoop(grid, 0, 0)
  IN  jsDivide(acc[1], acc[2])

\* ------------------------------------------------------------ the program
VARIABLES
  rule,            \* useState(110): the standard rule number
  awareMode,       \* useState(false)
  memoryBehavior,  \* useState('ignore')
  awareRule,       \* useState(null): the 16-bit rule of the aware run
  state,           \* run1D: let state
  prevDeriv,       \* run1D: let prevDeriv
  hist,            \* run1D: hist
  dHist,           \* run1D: dHist
  gHist,           \* run1D: gHist
  g2Hist,          \* run1D: g2Hist
  i,               \* run1D: the loop counter
  grid,            \* useState(null): the 2D grid
  birthRule,       \* useState([3])
  surviveRule,     \* useState([2, 3])
  running,         \* useState(false)
  generation,      \* the number of evolve2D steps applied to the grid
  seed,            \* where the grid's initial pattern was placed
  arr,             \* the argument of density
  metricOf,        \* which metric is asked for: "density" or "density2D"
  metric           \* the value density or density2D returned

vars == <<rule, awareMode, memoryBehavior, awareRule, state, prevDeriv, hist,
          dHist, gHist, g2Hist, i, grid, birthRule, surviveRule, running,
          generation, seed, arr, metricOf, metric>>

vars1D == <<rule, awareMode, memoryBehavior, awareRule, state, prevDeriv, hist,
            dHist, gHist, g2Hist, i>>

vars2D == <<grid, birthRule, surviveRule, running, generation, seed>>

varsMetric == <<arr, metricOf, metric>>

\* Every Uint8Array of cells of a length in `lengths`.
BinArrays(lengths) == UNION {[1..n -> Bit] : n \in lengths}

\* initSingle1D: all zero but cell floor(width / 2).
initSingle1D(width) ==
  array([k \in 1..width |-> IF k - 1 = width \div 2 THEN 1 ELSE 0])

\* initRandom1D can return any array of cells of the width.
initRandom1D(width) == [1..width -> Bit]

\* The arrays the two buttons pass to run1D.
InitialStates ==
  UNION {initRandom1D(width) : width \in 1..MaxWidth}
    \cup {initSingle1D(width) : width \in 1..SeedWidth}

run1DAwareBody_stalePrev(run, awareDict, ruleDict) ==
  LET ea == evolveAware(run.state, run.prevDeriv, awareDict)
      G  == groovyCommutatorAware(run.state, run.prevDeriv, awareDict)
      G2 == groovyCommutator(G, ruleDict)
  IN  [state     |-> ea.next,
       prevDeriv |-> IF run.prevDeriv = null THEN Some(ea.deriv) ELSE run.prevDeriv,
       hist      |-> Append(run.hist, ea.next),
       dHist     |-> Append(run.dHist, ea.deriv),
       gHist     |-> Append(run.gHist, G),
       g2Hist    |-> Append(run.g2Hist, G2)]

\* One pass of the aware loop of run1D.
run1DAwareBody(run, awareDict, ruleDict) ==
  LET ea == evolveAware(run.state, run.prevDeriv, awareDict)
      G  == groovyCommutatorAware(run.state, run.prevDeriv, awareDict)
      G2 == groovyCommutator(G, ruleDict)
  IN  [state     |-> ea.next,
       prevDeriv |-> Some(ea.deriv),
       hist      |-> Append(run.hist, ea.next),
       dHist     |-> Append(run.dHist, ea.deriv),
       gHist     |-> Append(run.gHist, G),
       g2Hist    |-> Append(run.g2Hist, G2)]

\* One pass of the standard loop of run1D.
run1DStandardBody(run, ruleDict) ==
  LET D    == derivative(run.state, ruleDict)
      G    == groovyCommutator(run.state, ruleDict)
      G2   == groovyCommutator2(run.state, ruleDict)
      next == evolve(run.state, ruleDict)
  IN  [state     |-> next,
       prevDeriv |-> run.prevDeriv,
       hist      |-> Append(run.hist, next),
       dHist     |-> Append(run.dHist, D),
       gHist     |-> Append(run.gHist, G),
       g2Hist    |-> Append(run.g2Hist, G2)]

\* `hist` of a standard run1D(initial) after `passes` passes of its loop:
\* [initial], then state = evolve(state, ruleDict); hist.push(state) each pass.
RECURSIVE standardHistory(_, _, _)
standardHistory(initial, ruleDict, passes) ==
  IF passes = 0 THEN <<initial>>
  ELSE LET h == standardHistory(initial, ruleDict, passes - 1)
       IN  Append(h, evolve(h[Len(h)], ruleDict))

\* The locals of the run in progress.
locals ==
  [state |-> state, prevDeriv |-> prevDeriv, hist |-> hist,
   dHist |-> dHist, gHist |-> gHist, g2Hist |-> g2Hist]

\* run1D(initial) up to its loop, for every rule, every initial array and every
\* mode among `modes` (awareMode TRUE or FALSE).
Init1D(modes) ==
  /\ rule \in Rules
  /\ awareMode \in modes
  /\ memoryBehavior \in Behaviors
  /\ (~awareMode => memoryBehavior = "ignore")
  /\ awareRule = IF awareMode THEN Some(standardToAwareRule(rule, memoryBehavior))
                 ELSE null
  /\ \E initial \in InitialStates :
       /\ state = initial
       /\ hist = <<initial>>
  /\ prevDeriv = null
  /\ dHist = <<>>
  /\ gHist = <<>>
  /\ g2Hist = <<>>
  /\ i = 0

Idle1D ==
  /\ rule = 110
  /\ awareMode = FALSE
  /\ memoryBehavior = "ignore"
  /\ awareRule = null
  /\ state = <<>>
  /\ prevDeriv = null
  /\ hist = <<>>
  /\ dHist = <<>>
  /\ gHist = <<>>
  /\ g2Hist = <<>>
  /\ i = 0

Idle2D ==
  /\ grid = <<>>
  /\ birthRule = <<3>>
  /\ surviveRule = <<2, 3>>
  /\ running = FALSE
  /\ generation = 0
  /\ seed = <<>>

IdleMetric ==
  /\ arr = <<>>
  /\ metricOf = "density"
  /\ metric = null

Init == Init1D(BOOLEAN) /\ Idle2D /\ IdleMetric

InitStandard == Init1D({FALSE}) /\ Idle2D /\ IdleMetric

InitAware == Init1D({TRUE}) /\ Idle2D /\ IdleMetric

\* A pass of the aware loop (awareMode).
StepAware ==
  /\ awareMode
  /\ i < MaxSteps
  /\ \E run \in {run1DAwareBody(locals, awareRuleToDict(awareRule[1]),
                                   ruleToDict(rule))} :
         /\ state' = run.state
         /\ prevDeriv' = run.prevDeriv
         /\ hist' = run.hist
         /\ dHist' = run.dHist
         /\ gHist' = run.gHist
         /\ g2Hist' = run.g2Hist
  /\ i' = i + 1
  /\ UNCHANGED <<rule, awareMode, memoryBehavior, awareRule>>
  /\ UNCHANGED <<vars2D, varsMetric>>

\* A pass of the standard loop (not awareMode).
StepStandard ==
  /\ ~awareMode
  /\ i < MaxSteps
  /\ \E run \in {run1DStandardBody(locals, ruleToDict(rule))} :
         /\ state' = run.state
         /\ prevDeriv' = run.prevDeriv
         /\ hist' = run.hist
         /\ dHist' = run.dHist
         /\ gHist' = run.gHist
         /\ g2Hist' = run.g2Hist
  /\ i' = i + 1
  /\ UNCHANGED <<rule, awareMode, memoryBehavior, awareRule>>
  /\ UNCHANGED <<vars2D, varsMetric>>

Next == StepAware \/ StepStandard

\* The 1D runs, standard and aware.
Spec == Init /\ [][Next]_vars

\* The standard runs alone.
NextStandard == StepStandard

SpecStandard == InitStandard /\ [][NextStandard]_vars

\* The aware runs alone.
NextAware == StepAware

SpecAware == InitAware /\ [][NextAware]_vars

\* ------------------------------------------------------------- 2D program
\* The h x w grid, all dead but the three cells in a row (in a column when
\* `vertical`) centred on row cy, column cx, wrapping at the edges.
blinker(h, w, cy, cx, vertical) ==
  array([ky \in 1..h |->
     array([kx \in 1..w |->
        LET y == ky - 1
            x == kx - 1
        IN  IF vertical
            THEN (IF x = cx /\ y \in {(cy + h - 1) % h, cy, (cy + 1) % h}
                  THEN 1 ELSE 0)
            ELSE (IF y = cy /\ x \in {(cx + w - 1) % w, cx, (cx + 1) % w}
                  THEN 1 ELSE 0)])])

\* A grid holding one horizontal run of three live cells, of at least 5 rows
\* and 5 columns, with the default rules B3/S23, not running.
Init2D ==
  /\ \E h \in 5..MaxGrid, w \in 5..MaxGrid :
       \E cy \in 0..(h - 1), cx \in 0..(w - 1) :
         /\ grid = blinker(h, w, cy, cx, FALSE)
         /\ seed = <<cy, cx>>
  /\ birthRule = <<3>>
  /\ surviveRule = <<2, 3>>
  /\ running = FALSE
  /\ generation = 0

InitLife == Idle1D /\ Init2D /\ IdleMetric

\* The Step button: shown when not running and there is a grid.
StepButton ==
  /\ ~running
  /\ generation < MaxGenerations
  /\ grid' = evolve2D(grid, birthRule, surviveRule)
  /\ generation' = generation + 1
  /\ UNCHANGED <<birthRule, surviveRule, running, seed>>
  /\ UNCHANGED <<vars1D, varsMetric>>

\* A tick of the animation interval: only while running.
Tick ==
  /\ running
  /\ generation < MaxGenerations
  /\ grid' = evolve2D(grid, birthRule, surviveRule)
  /\ generation' = generation + 1
  /\ UNCHANGED <<birthRule, surviveRule, running, seed>>
  /\ UNCHANGED <<vars1D, varsMetric>>

\* The Run / Pause button.
ToggleRunning ==
  /\ running' = ~running
  /\ UNCHANGED <<grid, birthRule, surviveRule, generation, seed>>
  /\ UNCHANGED <<vars1D, varsMetric>>

NextLife == StepButton \/ Tick \/ ToggleRunning

SpecLife == InitLife /\ [][NextLife]_vars

\* --------------------------------------------------------------- metrics
\* The grids of at most MaxRows rows and MaxRows columns, the grid of no rows
\* included.
SmallGrids ==
  UNION {[1..h -> [1..w -> Bit]] : h \in 0..MaxRows, w \in 1..MaxRows}

\* A call of density on any array of cells of at most MaxLen cells (the empty
\* array included), or of density2D on any small grid.
InitMetric ==
  /\ Idle1D
  /\ birthRule = <<3>>
  /\ surviveRule = <<2, 3>>
  /\ running = FALSE
  /\ generation = 0
  /\ seed = <<>>
  /\ metric = null
  /\ \/ /\ metricOf = "density"
        /\ arr \in BinArrays(0..MaxLen)
        /\ grid = <<>>
     \/ /\ metricOf = "density2D"
        /\ arr = <<>>
        /\ grid \in SmallGrids

Density ==
  /\ metricOf = "density"
  /\ metric = null
  /\ metric' = Some(density(arr))
  /\ UNCHANGED <<arr, metricOf, vars1D, vars2D>>

Density2D ==
  /\ metricOf = "density2D"
  /\ metric = null
  /\ metric' = Some(density2D(grid))
  /\ UNCHANGED <<arr, metricOf, vars1D, vars2D>>

NextMetric == Density \/ Density2D

SpecMetric == InitMetric /\ [][NextMetric]_vars

\* ------------------------------------------- calls of groovyCommutatorAware
\* Rule numbers of aware tables: MaxTables + 1 of the 65536, spread over the 16
\* bits (the multiplier is odd, so they are distinct).
AwareTables == {(k * 40503) % (2 ^ 16) : k \in 0..MaxTables}

\* The arguments of a call: a state, a previous derivative of the same length
\* or null, and the number of the rule whose table is passed.
CommutatorCalls ==
  UNION {[state : [1..n -> Bit],
          prevDeriv : {null} \cup {Some(p) : p \in [1..n -> Bit]},
          ruleNumber : AwareTables] : n \in 1..MaxWidth}

\* A call of groovyCommutatorAware about to be made, outside any run.
InitCommutator ==
  /\ Idle1D
  /\ Idle2D
  /\ metricOf = "groovyCommutatorAware"
  /\ arr \in CommutatorCalls
  /\ metric = null

\* The call returns.
GroovyCommutatorAware ==
  /\ metricOf = "groovyCommutatorAware"
  /\ metric = null
  /\ metric' = Some(groovyCommutatorAware(arr.state, arr.prevDeriv,
                                          awareRuleToDict(arr.ruleNumber)))
  /\ UNCHANGED <<arr, metricOf, vars1D, vars2D>>

\* Aware runs, and calls of groovyCommutatorAware on arbitrary arguments.
InitAwareOrCall == InitAware \/ InitCommutator

NextCommutator == StepAware \/ GroovyCommutatorAware

SpecCommutator == InitAwareOrCall /\ [][NextCommutator]_vars

\* ================================================================= claims
\* The tables of the run in progress.
ruleDictNow == ruleToDict(rule)

awareDictNow == awareRuleToDict(awareRule[1])

\* a xor b, cell by cell
xorCells(a, b) == array([k \in 1..Len(a) |-> Xor(a[k], b[k])])

\* The previous-derivative argument of pass t (t = 1 is the first pass).
prevDerivAt(t) == IF t = 1 THEN null ELSE Some(dHist[t - 1])

\* Bit number 4 l + 2 c + r of n, bit 0 being the least significant.
wolframBit(n, l, c, r) == (n \div (2 ^ (4 * l + 2 * c + r))) % 2

\* s shifted cyclically by k positions: cell x of the result is cell x - k of s.
shift(s, k) == array([x \in 1..Len(s) |-> s[((x - 1 - k) % Len(s)) + 1]])

\* C1: for every rule 0..255 and every ring state s, evolve(s, ruleToDict(n))
\* (E(s) = s xor D(s)) equals applyRule(s, ruleToDict(n)) cell for cell; the
\* state a standard run records after s is therefore applyRule of s.
C1_EvolveIsApplyRule ==
  LET ruleDict == ruleDictNow
  IN  \A t \in 1..Len(hist) :
        LET next == applyRule(hist[t], ruleDict)
        IN  /\ evolve(hist[t], ruleDict) = next
            /\ (~awareMode /\ t < Len(hist)) => hist[t + 1] = next

C1_Witness ==
  /\ ~awareMode
  /\ rule = 30
  /\ i >= 2
  /\ Len(state) >= 3
  /\ hist[2] # hist[1]
  /\ hist[3] # hist[2]

\* C2: for every rule n, state s and index i, applyRule(s, ruleToDict(n))[i] is
\* bit number 4 s[i-1] + 2 s[i] + s[i+1] (indices mod N) of n, least significant
\* bit first.  Rule 110 decodes to 000:0 001:1 010:1 011:1 100:0 101:1 110:1
\* 111:0, and on [0,0,0,1,0,0,0] gives [0,0,1,1,0,0,0], derivative
\* [0,0,1,0,0,0,0].
C2_WolframNumbering ==
  LET ruleDict == ruleDictNow
  IN
  /\ \A t \in 1..Len(hist) :
       LET s    == hist[t]
           n    == Len(s)
           next == applyRule(s, ruleDict)
       IN  \A k \in 1..n :
             LET bit == wolframBit(rule, s[((k - 2 + n) % n) + 1], s[k], s[(k % n) + 1])
             IN  /\ next[k] = bit
                 /\ (~awareMode /\ t < Len(hist)) => hist[t + 1][k] = bit
  /\ rule = 110 =>
       /\ DOMAIN ruleDict = Bit \X Bit \X Bit
       /\ ruleDict[<<0, 0, 0>>] = 0
       /\ ruleDict[<<0, 0, 1>>] = 1
       /\ ruleDict[<<0, 1, 0>>] = 1
       /\ ruleDict[<<0, 1, 1>>] = 1
       /\ ruleDict[<<1, 0, 0>>] = 0
       /\ ruleDict[<<1, 0, 1>>] = 1
       /\ ruleDict[<<1, 1, 0>>] = 1
       /\ ruleDict[<<1, 1, 1>>] = 0
  /\ (rule = 110 /\ ~awareMode /\ i >= 1 /\ hist[1] = <<0, 0, 0, 1, 0, 0, 0>>) =>
       /\ hist[2] = <<0, 0, 1, 1, 0, 0, 0>>
       /\ dHist[1] = <<0, 0, 1, 0, 0, 0, 0>>

C2_Witness ==
  /\ rule = 110
  /\ ~awareMode
  /\ i = 1
  /\ hist[1] = initSingle1D(7)
  /\ hist[1] = <<0, 0, 0, 1, 0, 0, 0>>
  /\ state = <<0, 0, 1, 1, 0, 0, 0>>

\* C3: for every base rule, initial state and number of steps, the aware run
\* with behaviour 'ignore' (no previous derivative at the first step, the
\* derivative carried forward after) records, cell for cell, the states of the
\* standard run with the same rule from the same initial state.
C3_IgnoreRunIsStandardRun ==
  (awareMode /\ memoryBehavior = "ignore") =>
    hist = standardHistory(hist[1], ruleDictNow, i)

C3_Witness ==
  /\ awareMode
  /\ memoryBehavior = "ignore"
  /\ i >= 3
  /\ \E k \in 1..Len(state) : dHist[1][k] = 1 /\ dHist[2][k] = 0
  /\ hist[3] # hist[2]
  /\ hist[4] # hist[3]

\* C4: for every base rule n, behaviour and (l, c, r), the table T of
\* standardToAwareRule(n, behaviour) has T[l,c,r,0] = r0 = ruleToDict(n)[l,c,r]
\* and T[l,c,r,1] = r0 (ignore), c (stabilize), 1 - r0 (invert), 1 (excite);
\* the rule number lies in 0..65535.
C4_LiftedTable ==
  awareMode =>
    /\ awareRule[1] \in 0..65535
    /\ LET ruleDict  == ruleDictNow
           awareDict == awareDictNow
       IN  \A l \in Bit, c \in Bit, r \in Bit :
             LET r0 == ruleDict[<<l, c, r>>]
             IN  /\ awareDict[<<l, c, r, 0>>] = r0
                 /\ awareDict[<<l, c, r, 1>>] =
                      CASE memoryBehavior = "ignore"    -> r0
                        [] memoryBehavior = "stabilize" -> c
                        [] memoryBehavior = "invert"    -> 1 - r0
                        [] memoryBehavior = "excite"    -> 1

C4_Witness ==
  /\ awareMode
  /\ memoryBehavior = "stabilize"
  /\ rule = 110
  /\ awareDictNow[<<0, 0, 1, 0>>] = 1
  /\ awareDictNow[<<0, 0, 1, 1>>] = 0
  /\ i >= 1

\* C5: for every standard rule, state s, shift k and step count, the standard
\* run from s shifted by k has, at every step, the state and the derivative of
\* the run from s, shifted by k.
C5_TranslationInvariance ==
  ~awareMode =>
    \A k \in 1..Len(state) :
      LET ruleDict == ruleDictNow
          shifted  == standardHistory(shift(hist[1], k), ruleDict, i)
      IN  /\ \A t \in 1..Len(hist) : shifted[t] = shift(hist[t], k)
          /\ \A t \in 1..Len(dHist) :
               derivative(shifted[t], ruleDict) = shift(dHist[t], k)

C5_Witness ==
  /\ ~awareMode
  /\ rule = 110
  /\ i >= 2
  /\ Len(state) >= 3
  /\ shift(hist[1], 1) # hist[1]
  /\ shift(hist[3], 1) # hist[3]
  /\ hist[3] # hist[1]
  /\ shift(dHist[2], 1) # dHist[2]

\* The G operator of the run in progress applied to s with the
\* previous-derivative argument of pass t.
runG(s, t, ruleDict, awareDict) ==
  IF awareMode THEN groovyCommutatorAware(s, prevDerivAt(t), awareDict)
  ELSE groovyCommutator(s, ruleDict)

C7_Blinker ==
  LET h == Len(grid)
      w == Len(grid[1])
  IN  /\ generation = 1 => grid = blinker(h, w, seed[1], seed[2], TRUE)
      /\ generation = 2 => grid = blinker(h, w, seed[1], seed[2], FALSE)

C7_Witness ==
  /\ generation = 2
  /\ seed = <<0, 0>>
  /\ Len(grid) = 5
  /\ Len(grid[1]) = 6
  /\ grid[1] = <<1, 1, 0, 0, 0, 1>>
  /\ \A ky \in 2..5 : grid[ky] = <<0, 0, 0, 0, 0, 0>>

\* A density is a number: a fraction, not NaN or Infinity.
isNumber(q) == Len(q) = 2

\* C8: for every binary array, density(arr) is a defined number in [0, 1], the
\* number of 1 cells over the number of cells; 0 for an all-zero array, 1 for
\* an all-ones array, and 0 for the empty array.
C8_DensityDefined ==
  (metricOf = "density" /\ metric # null) =>
    LET q    == metric[1]
        ones == Cardinality({k \in 1..Len(arr) : arr[k] = 1})
    IN  /\ isNumber(q)
        /\ 0 <= q[1] /\ q[1] <= q[2]
        /\ IF Len(arr) = 0 THEN q[1] = 0
           ELSE q[1] * Len(arr) = ones * q[2]

\* C9: behaviour 'ignore' is the same as standard: the G array an aware run
\* with behaviour 'ignore' records at every step is the G array the standard
\* run with the same rule records at that step from the same initial state.
C9_IgnoreGroovyIsStandardGroovy ==
  (awareMode /\ memoryBehavior = "ignore") =>
    LET ruleDict == ruleDictNow
        standard == standardHistory(hist[1], ruleDict, i)
    IN  \A t \in 1..Len(gHist) :
          gHist[t] = groovyCommutator(standard[t], ruleDict)

\* C10: in an aware run the history bit of the lookup that produces
\* state[t+1][i] is 0 at the first step and state[t-1][i] xor state[t][i], the
\* derivative recorded at the step before, afterwards; state and previous
\* derivative are replaced together at each step.
C10_HistoryBit ==
  awareMode =>
    LET awareDict == awareDictNow
        noHistory == [k \in 1..Len(state) |-> 0]
    IN  /\ \A t \in 1..(Len(hist) - 1) :
             LET bits == IF t = 1 THEN noHistory ELSE xorCells(hist[t - 1], hist[t])
             IN  /\ hist[t + 1] = applyAwareRule(hist[t], Some(bits), awareDict)
                 /\ dHist[t] = xorCells(hist[t], hist[t + 1])
        /\ state = hist[Len(hist)]
        /\ Len(hist) = i + 1
        /\ prevDeriv = IF i = 0 THEN null ELSE Some(xorCells(hist[i], hist[i + 1]))

C10_Witness ==
  /\ awareMode
  /\ memoryBehavior = "invert"
  /\ i >= 3
  /\ dHist[2] # dHist[1]
  /\ hist[4] = applyAwareRule(hist[3], Some(dHist[2]), awareDictNow)
  /\ hist[4] # applyAwareRule(hist[3], Some(dHist[1]), awareDictNow)
  /\ hist[4] # applyAwareRule(hist[3], Some(dHist[3]), awareDictNow)
  /\ hist[4] # applyAwareRule(hist[3], null, awareDictNow)

\* C11: in an aware run with memory behaviour 'stabilize', for every base rule,
\* every initial state, every cell and every step t >= 1, a cell that changed
\* during step t - 1 keeps its value during step t: no cell changes on two
\* consecutive steps.  (hist[u] is the state after u - 1 steps.)
C11_StabilizeNoDoubleChange ==
  (awareMode /\ memoryBehavior = "stabilize") =>
    \A u \in 2..(Len(hist) - 1) : \A k \in 1..Len(state) :
      hist[u - 1][k] # hist[u][k] => hist[u + 1][k] = hist[u][k]

\* A cell changed, the base rule alone would have changed it again, and it
\* stayed put.
C11_Witness ==
  /\ awareMode
  /\ memoryBehavior = "stabilize"
  /\ i >= 2
  /\ \E k \in 1..Len(state) :
        /\ hist[1][k] # hist[2][k]
        /\ applyRule(hist[2], ruleDictNow)[k] # hist[2][k]
        /\ hist[3][k] = hist[2][k]

====
